---------------------------- MODULE Spec2Model ----------------------------
(***************************************************************************)
(* State-machine model of the municipal complaint service in src/rf.py:    *)
(* keyword / statistical category resolution, complaint creation with      *)
(* priority scoring, status updates, voting and the activity log.          *)
(*                                                                         *)
(* Text is modelled as a sequence of one-character strings so that         *)
(* str.lower(), str.strip(), len() and the substring test `kw in text`     *)
(* are computed, not assumed.  priority_score is held in units of          *)
(* 1/PriorityScale (halves) so that the 0.5 step of a vote stays integral. *)
(***************************************************************************)
EXTENDS Integers, Sequences, FiniteSets, TLC

\* ------------------------------------------------------------------ bounds
\* full specification: number of requests that get past their handler's
\* checks (complaints created + status updates applied + votes admitted)
MaxRequests == 3
\* creation-only specification: capacity of the complaints collection
MaxSubmitted == 1

\* largest page number and page size of /get_complaints requests
MaxPage == 3
MaxPerPage == 2

\* ------------------------------------------------------- program constants
\* len(complaint_text) < 10 is rejected
MinComplaintLen == 10
\* request.form.get("severity", 5) and the except-branch default
DefaultSeverity == 5
\* min(10, priority_score + boost)
PriorityCap == 10
\* boost for "urgent" / "emergency"
UrgentBoost == 2
\* boost for "soon" / "important"
SoonBoost == 1
\* a vote moves priority_score by vote_change * 0.5 = vote_change / PriorityScale
PriorityScale == 2

None == "<None>"
\* a falsy complaintId (missing key, null or empty string)
NoId == 0

\* ------------------------------------------------------------ text helpers
UpperChars ==
    <<"A","B","C","D","E","F","G","H","I","J","K","L","M","N","O","P","Q","R","S","T","U","V","W","X","Y","Z">>
LowerChars ==
    <<"a","b","c","d","e","f","g","h","i","j","k","l","m","n","o","p","q","r","s","t","u","v","w","x","y","z">>
DigitChars ==
    <<"0","1","2","3","4","5","6","7","8","9">>

\* index of character c in table t, 0 when absent
IndexOf(c, t) ==
    IF \E i \in 1..Len(t) : t[i] = c
    THEN CHOOSE i \in 1..Len(t) : t[i] = c
    ELSE 0

LowerChar(c) ==
    LET i == IndexOf(c, UpperChars) IN IF i = 0 THEN c ELSE LowerChars[i]

\* str.lower()
Lower(s) == [i \in 1..Len(s) |-> LowerChar(s[i])]

IsSpace(c) == c = " "

\* str.strip()
Strip(s) ==
    LET keep == {i \in 1..Len(s) : ~IsSpace(s[i])}
    IN  IF keep = {} THEN <<>>
        ELSE LET lo == CHOOSE i \in keep : \A j \in keep : i <= j
                 hi == CHOOSE i \in keep : \A j \in keep : i >= j
             IN  SubSeq(s, lo, hi)

\* the Python test `kw in s`
Contains(kw, s) ==
    \E i \in 1..(Len(s) - Len(kw) + 1) : SubSeq(s, i, i + Len(kw) - 1) = kw

\* int(str): an optional sign followed by one or more decimal digits;
\* anything else raises ValueError
IsDigit(c) == IndexOf(c, DigitChars) # 0
IsIntLiteral(s) ==
    LET body == IF Len(s) > 0 /\ s[1] \in {"-", "+"} THEN Tail(s) ELSE s
    IN  Len(body) > 0 /\ \A i \in 1..Len(body) : IsDigit(body[i])

RECURSIVE DigitsValue(_)
DigitsValue(s) ==
    IF Len(s) = 0 THEN 0
    ELSE 10 * DigitsValue(SubSeq(s, 1, Len(s) - 1)) + (IndexOf(s[Len(s)], DigitChars) - 1)

IntOf(s) ==
    IF s[1] = "-" THEN 0 - DigitsValue(Tail(s))
    ELSE IF s[1] = "+" THEN DigitsValue(Tail(s))
    ELSE DigitsValue(s)

Min2(a, b) == IF a <= b THEN a ELSE b

\* ------------------------------------------------------------- categories
\* a seventh category added to the list
CATEGORIES_WithExtra ==
    <<"Water Issues", "Road Issues", "Garbage Issues", "Electricity", "Drainage Issues", "Other",
      "Noise Pollution">>

CATEGORIES ==
    <<"Water Issues", "Road Issues", "Garbage Issues", "Electricity", "Drainage Issues", "Other">>

CategorySet == {CATEGORIES[i] : i \in 1..Len(CATEGORIES)}

\* CATEGORY_KEYWORDS in declaration order (dict iteration order)
CATEGORY_KEYWORDS ==
    <<
      [category |-> "Water Issues", keywords |-> <<
          <<"w","a","t","e","r">>,
          <<"d","r","i","n","k","i","n","g">>,
          <<"s","u","p","p","l","y">>,
          <<"l","e","a","k">>,
          <<"p","i","p","e">>,
          <<"t","a","p">>,
          <<"s","m","e","l","l">>,
          <<"t","a","s","t","e">>,
          <<"p","r","e","s","s","u","r","e">>
        >>],
      [category |-> "Road Issues", keywords |-> <<
          <<"r","o","a","d">>,
          <<"p","o","t","h","o","l","e">>,
          <<"a","s","p","h","a","l","t">>,
          <<"s","t","r","e","e","t">>,
          <<"h","i","g","h","w","a","y">>,
          <<"r","e","p","a","i","r">>,
          <<"d","a","m","a","g","e">>,
          <<"c","o","n","s","t","r","u","c","t","i","o","n">>
        >>],
      [category |-> "Garbage Issues", keywords |-> <<
          <<"g","a","r","b","a","g","e">>,
          <<"t","r","a","s","h">>,
          <<"w","a","s","t","e">>,
          <<"c","o","l","l","e","c","t","i","o","n">>,
          <<"d","u","m","p">>,
          <<"b","i","n">>,
          <<"c","l","e","a","n">>,
          <<"d","i","s","p","o","s","a","l">>
        >>],
      [category |-> "Electricity", keywords |-> <<
          <<"e","l","e","c","t","r","i","c","i","t","y">>,
          <<"p","o","w","e","r">>,
          <<"o","u","t","a","g","e">>,
          <<"b","l","a","c","k","o","u","t">>,
          <<"w","i","r","e">>,
          <<"t","r","a","n","s","f","o","r","m","e","r">>,
          <<"v","o","l","t","a","g","e">>,
          <<"f","l","i","c","k","e","r","i","n","g">>
        >>],
      [category |-> "Drainage Issues", keywords |-> <<
          <<"d","r","a","i","n","a","g","e">>,
          <<"s","e","w","e","r">>,
          <<"f","l","o","o","d">>,
          <<"w","a","t","e","r","l","o","g","g","i","n","g">>,
          <<"b","l","o","c","k","a","g","e">>,
          <<"c","l","o","g">>,
          <<"o","v","e","r","f","l","o","w">>
        >>],
      [category |-> "Other", keywords |-> <<
          <<"n","o","i","s","e">>,
          <<"l","o","u","d","s","p","e","a","k","e","r">>,
          <<"p","a","r","k">>,
          <<"t","r","e","e">>,
          <<"a","n","i","m","a","l">>,
          <<"s","t","r","a","y">>,
          <<"p","u","b","l","i","c">>,
          <<"n","u","i","s","a","n","c","e">>
        >>]
    >>

KwUrgent == <<"u","r","g","e","n","t">>
KwEmergency == <<"e","m","e","r","g","e","n","c","y">>
KwSoon == <<"s","o","o","n">>
KwImportant == <<"i","m","p","o","r","t","a","n","t">>

\* ------------------------------------------------------------------ inputs
\* 'There is no water supply in my street for 3 days'
TxtWaterSupply ==
    <<"T","h","e","r","e"," ","i","s"," ","n","o"," ","w","a","t","e","r"," ","s","u","p","p","l","y"," ","i","n"," ","m","y"," ","s","t","r","e","e","t"," ","f","o","r"," ","3"," ","d","a","y","s">>
\* 'URGENT: Pothole here'
TxtUrgentPothole ==
    <<"U","R","G","E","N","T",":"," ","P","o","t","h","o","l","e"," ","h","e","r","e">>
\* 'Bin overflow, fix soon'
TxtBinOverflow ==
    <<"B","i","n"," ","o","v","e","r","f","l","o","w",","," ","f","i","x"," ","s","o","o","n">>
\* 'Staple shop shut'
TxtStaple ==
    <<"S","t","a","p","l","e"," ","s","h","o","p"," ","s","h","u","t">>
\* 'Urgent, important: power cut'
TxtPowerBoth ==
    <<"U","r","g","e","n","t",","," ","i","m","p","o","r","t","a","n","t",":"," ","p","o","w","e","r"," ","c","u","t">>
\* 'Loud NOISE at night'
TxtNoise ==
    <<"L","o","u","d"," ","N","O","I","S","E"," ","a","t"," ","n","i","g","h","t">>
\* 'Hello there friends'
TxtHello ==
    <<"H","e","l","l","o"," ","t","h","e","r","e"," ","f","r","i","e","n","d","s">>
\* 'Emergency, help!'
TxtEmergency ==
    <<"E","m","e","r","g","e","n","c","y",","," ","h","e","l","p","!">>
\* 'Important: dogs bark'
TxtImportant ==
    <<"I","m","p","o","r","t","a","n","t",":"," ","d","o","g","s"," ","b","a","r","k">>
\* 'Sewer smells soon'
TxtSewer ==
    <<"S","e","w","e","r"," ","s","m","e","l","l","s"," ","s","o","o","n">>
\* 'wire fell!'
TxtWire10 ==
    <<"w","i","r","e"," ","f","e","l","l","!">>
\* 'road leak'
TxtRoad9 ==
    <<"r","o","a","d"," ","l","e","a","k">>
\* '   pothole   '
TxtPadded ==
    <<" "," "," ","p","o","t","h","o","l","e"," "," "," ">>
\* '  hi friends  '
TxtPaddedOk ==
    <<" "," ","h","i"," ","f","r","i","e","n","d","s"," "," ">>
\* ''
TxtEmpty ==
    <<>>
\* 'Sewer blockage now'
TxtBlockage ==
    <<"S","e","w","e","r"," ","b","l","o","c","k","a","g","e"," ","n","o","w">>
\* the bodies submitted to /submit_complaint in the creation-only specification
SubmitTexts ==
    { TxtWaterSupply, TxtUrgentPothole, TxtBinOverflow, TxtStaple, TxtPowerBoth,
      TxtNoise, TxtHello, TxtEmergency, TxtImportant, TxtSewer, TxtBlockage,
      TxtWire10, TxtRoad9, TxtPadded, TxtPaddedOk, TxtEmpty }

\* the bodies submitted in the full specification
FewTexts == { TxtUrgentPothole, TxtHello, TxtRoad9 }

\* a form field: absent, or the string that was sent
Absent == [given |-> FALSE, value |-> <<>>]
Field(s) == [given |-> TRUE, value |-> s]

\* the "severity" form values of the creation-only specification
SubmitSeverities ==
    { Absent, Field(<<>>), Field(<<"a","b","c">>), Field(<<"7","x">>),
      Field(<<"1">>), Field(<<"5">>), Field(<<"9">>), Field(<<"1","0">>),
      Field(<<" ","8"," ">>), Field(<<"+","3">>),
      Field(<<"0">>), Field(<<"1","5">>), Field(<<"-","3">>) }

\* the "severity" form values of the full specification
FewSeverities == { Field(<<"9">>) }

\* labels the label decoder may hand back; the second is outside CATEGORIES
Labels == { "Road Issues", "Noise Pollution" }

\* outcomes of loading the three ML artefacts at start-up
LoadOutcomes ==
    { [model |-> TRUE, tfidf_vectorizer |-> TRUE, label_encoder |-> TRUE],
      [model |-> TRUE, tfidf_vectorizer |-> FALSE, label_encoder |-> TRUE],
      [model |-> FALSE, tfidf_vectorizer |-> FALSE, label_encoder |-> FALSE] }

AllTexts == SubmitTexts \cup FewTexts

\* ------------------------------------------------------------------- state
VARIABLES
    complaints_collection,  \* _id -> complaint document
    activity_collection,    \* sequence of activity documents, oldest first
    ml,                     \* which of model / tfidf_vectorizer / label_encoder loaded
    votes_in_flight,        \* /vote_complaint requests: position and locals
    last                    \* the handler step taken last and its response

vars == <<complaints_collection, activity_collection, ml, votes_in_flight, last>>

Ids == DOMAIN complaints_collection

\* ------------------------------------------------------ category resolution
\* manual_category_detection: first category, in declaration order, one of
\* whose keywords occurs in the lower-cased text
\* the last matching category, in declaration order, instead of the first
manual_category_detection_last_match(complaint_text) ==
    LET t == Lower(complaint_text)
        hits == { i \in 1..Len(CATEGORY_KEYWORDS) :
                    \E k \in 1..Len(CATEGORY_KEYWORDS[i].keywords) :
                        Contains(Lower(CATEGORY_KEYWORDS[i].keywords[k]), t) }
    IN  IF hits = {} THEN None
        ELSE CATEGORY_KEYWORDS[CHOOSE i \in hits : \A j \in hits : i >= j].category

manual_category_detection(complaint_text) ==
    LET t == Lower(complaint_text)
        hits == { i \in 1..Len(CATEGORY_KEYWORDS) :
                    \E k \in 1..Len(CATEGORY_KEYWORDS[i].keywords) :
                        Contains(Lower(CATEGORY_KEYWORDS[i].keywords[k]), t) }
    IN  IF hits = {} THEN None
        ELSE CATEGORY_KEYWORDS[CHOOSE i \in hits : \A j \in hits : i <= j].category

\* The text-only computations of submit_complaint, tabulated over the request
\* bodies so that each is evaluated once per body rather than once per step:
\* complaint_text = data.get("complaint", "").strip()
StrippedText == [text \in AllTexts |-> Strip(text)]

StrippedTexts == {StrippedText[text] : text \in AllTexts}

\* manual_category = manual_category_detection(complaint_text.lower())
ManualCategory ==
    [complaint_text \in StrippedTexts |-> manual_category_detection(Lower(complaint_text))]

\* the two keyword tests of the priority computation
MentionsUrgent ==
    [complaint_text \in StrippedTexts |->
        Contains(KwUrgent, Lower(complaint_text)) \/ Contains(KwEmergency, Lower(complaint_text))]

MentionsSoon ==
    [complaint_text \in StrippedTexts |->
        Contains(KwSoon, Lower(complaint_text)) \/ Contains(KwImportant, Lower(complaint_text))]

validate_prediction(predicted_category, complaint_text) ==
    IF predicted_category \notin CategorySet THEN "Other" ELSE predicted_category

\* `model and tfidf_vectorizer and label_encoder`
MLAvailable(m) == m.model /\ m.tfidf_vectorizer /\ m.label_encoder

\* the category decision of submit_complaint; label is what
\* label_encoder.inverse_transform returns when the model is run
ResolveCategory(complaint_text, m, label) ==
    LET manual_category == ManualCategory[complaint_text]
        predicted ==
            IF manual_category # None THEN manual_category
            ELSE IF MLAvailable(m)
                 THEN validate_prediction(label, complaint_text)
                 ELSE LET again == ManualCategory[complaint_text]
                      IN  IF again # None THEN again ELSE "Other"
    IN  [ category |-> IF predicted \notin CategorySet THEN "Other" ELSE predicted,
          manual_category |-> manual_category,
          model_run |-> manual_category = None /\ MLAvailable(m) ]

PredictionSource(manual_category) ==
    IF manual_category # None THEN "manual" ELSE "model"

\* ------------------------------------------------------ severity, priority
\* severity = request.form.get("severity", 5); int(severity), 5 on ValueError
ParseSeverity(raw) ==
    IF ~raw.given THEN DefaultSeverity
    ELSE IF IsIntLiteral(Strip(raw.value)) THEN IntOf(Strip(raw.value))
    ELSE DefaultSeverity

\* both boosts added when both keyword groups occur
InitialPriorityBoostsAdded(complaint_text, severity) ==
    LET urgent == IF MentionsUrgent[complaint_text] THEN UrgentBoost ELSE 0
        soon == IF MentionsSoon[complaint_text] THEN SoonBoost ELSE 0
    IN  IF urgent + soon = 0 THEN severity
        ELSE Min2(PriorityCap, severity + urgent + soon)

\* initial priority_score, in whole points
InitialPriority(complaint_text, severity) ==
    IF MentionsUrgent[complaint_text]
    THEN Min2(PriorityCap, severity + UrgentBoost)
    ELSE IF MentionsSoon[complaint_text]
    THEN Min2(PriorityCap, severity + SoonBoost)
    ELSE severity

\* ------------------------------------------------------------ activity log
log_activity(activity_type, message) ==
    activity_collection' =
        Append(activity_collection, [type |-> activity_type, message |-> message])

\* ---------------------------------------------------------------- responses
\* what `last` records of a step: the handler, the HTTP status code (0 while
\* the handler has not answered yet), the error text, the complaint_id of the
\* response body (submit_complaint only), the submitted text and severity
\* (submit_complaint only) and the votes / priority_score of the response
\* body (vote_complaint only)
Response(op, code, error, id, text, severity, votes, priority_score) ==
    [ op |-> op, code |-> code, error |-> error, complaint_id |-> id,
      complaint |-> text, severity |-> severity,
      votes |-> votes, priority_score |-> priority_score ]

NoResponse == Response("start", 0, "", NoId, <<>>, Absent, 0, 0)

\* ------------------------------------------------------- /submit_complaint
\* the newest "timestamp" stored so far, in milliseconds (the resolution at
\* which the store keeps a datetime) counted from just before the first
\* complaint
RECURSIVE Latest(_)
Latest(ids) ==
    IF ids = {} THEN 0
    ELSE LET c == CHOOSE x \in ids : TRUE
             rest == Latest(ids \ {c})
         IN  IF complaints_collection[c].timestamp > rest
             THEN complaints_collection[c].timestamp ELSE rest

\* datetime.datetime.utcnow() as stored: the clock does not run backwards, and
\* a request handled within the millisecond of the one before it reads the
\* same value
UtcNow == IF Ids = {} THEN {1} ELSE {Latest(Ids), Latest(Ids) + 1}

NewComplaint(complaint_text, resolved, severity, timestamp) ==
    [ complaint |-> complaint_text,
      category |-> resolved.category,
      timestamp |-> timestamp,
      prediction_source |-> PredictionSource(resolved.manual_category),
      status |-> "new",
      priority_score |-> PriorityScale * InitialPriority(complaint_text, severity),
      severity |-> severity,
      votes |-> 0,
      comments |-> <<>>,
      \* not written at creation; None / empty stand for the absent field
      voters |-> {},
      admin_notes |-> <<>>,
      assigned_department |-> None,
      \* request bodies of the model carry no photo part
      has_photo |-> FALSE,
      photo_path |-> None ]

\* a threshold one too low: nine characters are let through
TooShortOffByOne(complaint_text) == Len(complaint_text) < MinComplaintLen - 1

\* `if len(complaint_text) < 10`
TooShort(complaint_text) == Len(complaint_text) < MinComplaintLen

submit_complaint(text, severity_raw, label) ==
    LET complaint_text == StrippedText[text]
    IN  IF TooShort(complaint_text)
        THEN /\ last' = Response("submit_complaint", 400,
                                 "Complaint must be at least 10 characters",
                                 NoId, text, Absent, 0, 0)
             /\ UNCHANGED <<complaints_collection, activity_collection, ml, votes_in_flight>>
        ELSE LET resolved == ResolveCategory(complaint_text, ml, label)
                 complaint_id == Cardinality(Ids) + 1
                 severity == ParseSeverity(severity_raw)
             IN  /\ \E timestamp \in UtcNow :
                        complaints_collection' =
                            [ i \in Ids \cup {complaint_id} |->
                                IF i = complaint_id
                                THEN NewComplaint(complaint_text, resolved, severity,
                                                  timestamp)
                                ELSE complaints_collection[i] ]
                 /\ log_activity("new_complaint",
                                 <<"New complaint submitted in", resolved.category, "category">>)
                 /\ last' = Response("submit_complaint", 200, "", complaint_id,
                                     text, severity_raw, 0, 0)
                 /\ UNCHANGED <<ml, votes_in_flight>>

\* ---------------------------------------------------------- /update_status
\* a fourth status let through
STATUSES_WithClosed == {"new", "in_progress", "resolved", "closed"}

\* `new_status not in ["new", "in_progress", "resolved"]`
STATUSES == {"new", "in_progress", "resolved"}

\* the raw status value written into the activity message
StatusTextRaw(new_status) == new_status

StatusText(new_status) ==
    IF new_status = "new" THEN "New"
    ELSE IF new_status = "in_progress" THEN "In Progress"
    ELSE "Resolved"

update_status(complaint_id, new_status) ==
    IF complaint_id = NoId \/ new_status \in {None, ""}
    THEN /\ last' = Response("update_status", 400, "Missing required fields",
                             NoId, <<>>, Absent, 0, 0)
         /\ UNCHANGED <<complaints_collection, activity_collection, ml, votes_in_flight>>
    ELSE IF new_status \notin STATUSES
    THEN /\ last' = Response("update_status", 400, "Invalid status value",
                             NoId, <<>>, Absent, 0, 0)
         /\ UNCHANGED <<complaints_collection, activity_collection, ml, votes_in_flight>>
    ELSE IF complaint_id \notin Ids
    THEN /\ last' = Response("update_status", 404, "Complaint not found",
                             NoId, <<>>, Absent, 0, 0)
         /\ UNCHANGED <<complaints_collection, activity_collection, ml, votes_in_flight>>
    ELSE /\ complaints_collection' =
                [complaints_collection EXCEPT ![complaint_id].status = new_status]
         /\ log_activity("status_update",
                         <<"Complaint #", ToString(complaint_id), " marked as ",
                           StatusText(new_status)>>)
         /\ last' = Response("update_status", 200, "", NoId, <<>>, Absent, 0, 0)
         /\ UNCHANGED <<ml, votes_in_flight>>

\* ------------------------------------------------------ /assign_department
assign_department(complaint_id, department) ==
    IF complaint_id = NoId \/ department \in {None, ""}
    THEN /\ last' = Response("assign_department", 400, "Missing required fields",
                             NoId, <<>>, Absent, 0, 0)
         /\ UNCHANGED <<complaints_collection, activity_collection, ml, votes_in_flight>>
    ELSE IF complaint_id \notin Ids
    THEN /\ last' = Response("assign_department", 404, "Complaint not found",
                             NoId, <<>>, Absent, 0, 0)
         /\ UNCHANGED <<complaints_collection, activity_collection, ml, votes_in_flight>>
    ELSE /\ complaints_collection' =
                [complaints_collection EXCEPT ![complaint_id].assigned_department = department]
         /\ last' = Response("assign_department", 200, "", NoId, <<>>, Absent, 0, 0)
         /\ UNCHANGED <<activity_collection, ml, votes_in_flight>>

\* the handler with an activity entry logged on success, as /update_status does
save_admin_note_logged(complaint_id, note_text) ==
    IF complaint_id = NoId \/ note_text \in {None, ""}
    THEN /\ last' = Response("save_admin_note", 400, "Missing required fields",
                             NoId, <<>>, Absent, 0, 0)
         /\ UNCHANGED <<complaints_collection, activity_collection, ml, votes_in_flight>>
    ELSE IF complaint_id \notin Ids
    THEN /\ last' = Response("save_admin_note", 404, "Complaint not found",
                             NoId, <<>>, Absent, 0, 0)
         /\ UNCHANGED <<complaints_collection, activity_collection, ml, votes_in_flight>>
    ELSE /\ complaints_collection' =
                [complaints_collection EXCEPT ![complaint_id].admin_notes =
                    Append(@, [text |-> note_text, admin |-> "Administrator"])]
         /\ activity_collection' =
                Append(activity_collection,
                       [type |-> "admin_note", message |-> <<"Note added">>])
         /\ last' = Response("save_admin_note", 200, "", NoId, <<>>, Absent, 0, 0)
         /\ UNCHANGED <<ml, votes_in_flight>>

\* -------------------------------------------------------- /save_admin_note
save_admin_note(complaint_id, note_text) ==
    IF complaint_id = NoId \/ note_text \in {None, ""}
    THEN /\ last' = Response("save_admin_note", 400, "Missing required fields",
                             NoId, <<>>, Absent, 0, 0)
         /\ UNCHANGED <<complaints_collection, activity_collection, ml, votes_in_flight>>
    ELSE IF complaint_id \notin Ids
    THEN /\ last' = Response("save_admin_note", 404, "Complaint not found",
                             NoId, <<>>, Absent, 0, 0)
         /\ UNCHANGED <<complaints_collection, activity_collection, ml, votes_in_flight>>
    ELSE /\ complaints_collection' =
                [complaints_collection EXCEPT ![complaint_id].admin_notes =
                    Append(@, [text |-> note_text, admin |-> "Administrator"])]
         /\ last' = Response("save_admin_note", 200, "", NoId, <<>>, Absent, 0, 0)
         /\ UNCHANGED <<activity_collection, ml, votes_in_flight>>

\* ------------------------------------------------------------ /add_comment
\* comments stored so far, over all complaints
RECURSIVE CommentCount(_)
CommentCount(ids) ==
    IF ids = {} THEN 0
    ELSE LET c == CHOOSE x \in ids : TRUE
         IN  Len(complaints_collection[c].comments) + CommentCount(ids \ {c})

add_comment(complaint_id, comment_text) ==
    IF complaint_id = NoId \/ comment_text \in {None, ""}
    THEN /\ last' = Response("add_comment", 400,
                             "Complaint ID and comment text are required",
                             NoId, <<>>, Absent, 0, 0)
         /\ UNCHANGED <<complaints_collection, activity_collection, ml, votes_in_flight>>
    ELSE IF complaint_id \notin Ids
    THEN /\ last' = Response("add_comment", 404,
                             "Complaint not found or comment not added",
                             NoId, <<>>, Absent, 0, 0)
         /\ UNCHANGED <<complaints_collection, activity_collection, ml, votes_in_flight>>
    ELSE /\ complaints_collection' =
                [complaints_collection EXCEPT ![complaint_id].comments =
                    Append(@, [ text |-> comment_text, user |-> "Anonymous User",
                                comment_id |-> CommentCount(Ids) + 1 ])]
         /\ last' = Response("add_comment", 200, "", NoId, <<>>, Absent, 0, 0)
         /\ UNCHANGED <<activity_collection, ml, votes_in_flight>>

\* ----------------------------------------------- /upload_photo/<complaint_id>
\* photo: None when the request has no photo part, else the file name
upload_photo(complaint_id, photo) ==
    IF photo = None
    THEN /\ last' = Response("upload_photo", 400, "No photo part in the request",
                             NoId, <<>>, Absent, 0, 0)
         /\ UNCHANGED <<complaints_collection, activity_collection, ml, votes_in_flight>>
    ELSE IF photo = ""
    THEN /\ last' = Response("upload_photo", 400, "No photo selected",
                             NoId, <<>>, Absent, 0, 0)
         /\ UNCHANGED <<complaints_collection, activity_collection, ml, votes_in_flight>>
    ELSE IF complaint_id \notin Ids
    THEN /\ last' = Response("upload_photo", 404, "Complaint not found",
                             NoId, <<>>, Absent, 0, 0)
         /\ UNCHANGED <<complaints_collection, activity_collection, ml, votes_in_flight>>
    ELSE /\ complaints_collection' =
                [complaints_collection EXCEPT
                    ![complaint_id].has_photo = TRUE,
                    ![complaint_id].photo_path = ToString(complaint_id) \o ".jpg"]
         /\ last' = Response("upload_photo", 200, "", NoId, <<>>, Absent, 0, 0)
         /\ UNCHANGED <<activity_collection, ml, votes_in_flight>>

\* ---------------------------------------------------------- /vote_complaint
\* `if user_email:` -- None and the empty string are falsy
Truthy(user_email) == user_email \notin {None, ""}

VoteChange(vote_type) == IF vote_type = "upvote" THEN 1 ELSE -1

\* a read-modify-write in the handler instead of $inc: the counters are
\* written back from the document read before the voter check
ApplyVoteReadModifyWrite(doc, snapshot, vote_change, user_email) ==
    [ doc EXCEPT !.votes = snapshot.votes + vote_change,
                 !.priority_score = snapshot.priority_score + vote_change,
                 !.voters = IF user_email \notin {None, ""} THEN @ \cup {user_email} ELSE @ ]

\* the $addToSet of the voter left out
ApplyVoteVoterNotRecorded(doc, snapshot, vote_change, user_email) ==
    [ doc EXCEPT !.votes = @ + vote_change,
                 !.priority_score = @ + vote_change ]

\* update_one({'_id': id}, {'$inc': {...}, '$addToSet': {...}}): the store
\* applies the operators to the document as it is when the update runs;
\* snapshot is the document the handler read earlier and is not consulted
ApplyVote(doc, snapshot, vote_change, user_email) ==
    [ doc EXCEPT !.votes = @ + vote_change,
                 !.priority_score = @ + vote_change,
                 !.voters = IF Truthy(user_email) THEN @ \cup {user_email} ELSE @ ]

VoteRequest(pc, complaint_id, vote_type, user_email, snapshot, code) ==
    [ pc |-> pc, complaint_id |-> complaint_id, vote_type |-> vote_type,
      user_email |-> user_email, complaint |-> snapshot, code |-> code ]

IdleVote == VoteRequest("idle", NoId, None, None, <<>>, 0)

\* the handler up to and including the voter check on the document it read.
\* A request answered here (400 / 404) has no further step and leaves slot r
\* free; a request that passes the check occupies the first free slot r until
\* it has answered.
vote_find(r, complaint_id, vote_type, user_email) ==
    /\ votes_in_flight[r].pc = "idle"
    /\ IF r = 1 THEN TRUE ELSE votes_in_flight[r - 1].pc # "idle"
    /\ UNCHANGED <<complaints_collection, activity_collection, ml>>
    /\ IF complaint_id = NoId
       THEN /\ UNCHANGED votes_in_flight
            /\ last' = Response("vote_complaint", 400, "Complaint ID is required",
                                NoId, <<>>, Absent, 0, 0)
       ELSE IF complaint_id \notin Ids
       THEN /\ UNCHANGED votes_in_flight
            /\ last' = Response("vote_complaint", 404, "Complaint not found",
                                NoId, <<>>, Absent, 0, 0)
       ELSE LET complaint == complaints_collection[complaint_id]
            IN  IF Truthy(user_email) /\ user_email \in complaint.voters
                THEN /\ UNCHANGED votes_in_flight
                     /\ last' = Response("vote_complaint", 400,
                                         "You have already voted on this complaint",
                                         NoId, <<>>, Absent, 0, 0)
                ELSE /\ votes_in_flight' = [votes_in_flight EXCEPT ![r] =
                            VoteRequest("update", complaint_id, vote_type, user_email,
                                        <<complaint>>, 0)]
                     /\ last' = Response("vote_complaint", 0, "", NoId,
                                         <<>>, Absent, 0, 0)

\* the update_one call and the modified_count test
vote_update(r) ==
    LET req == votes_in_flight[r]
    IN  /\ req.pc = "update"
        /\ UNCHANGED <<activity_collection, ml>>
        /\ IF req.complaint_id \notin Ids
           THEN /\ votes_in_flight' = [votes_in_flight EXCEPT ![r] =
                        VoteRequest("done", req.complaint_id, req.vote_type,
                                    req.user_email, <<>>, 404)]
                /\ last' = Response("vote_complaint", 404,
                                    "Complaint not found or vote not recorded",
                                    NoId, <<>>, Absent, 0, 0)
                /\ UNCHANGED complaints_collection
           ELSE /\ complaints_collection' =
                       [complaints_collection EXCEPT ![req.complaint_id] =
                           ApplyVote(@, req.complaint[1], VoteChange(req.vote_type),
                                     req.user_email)]
                /\ votes_in_flight' = [votes_in_flight EXCEPT ![r] =
                        VoteRequest("respond", req.complaint_id, req.vote_type,
                                    req.user_email, <<>>, 0)]
                /\ last' = Response("vote_complaint", 0, "", NoId,
                                    <<>>, Absent, 0, 0)

\* the second find_one and the success response
vote_respond(r) ==
    LET req == votes_in_flight[r]
        found == req.complaint_id \in Ids
    IN  /\ req.pc = "respond"
        /\ votes_in_flight' = [votes_in_flight EXCEPT ![r] =
                VoteRequest("done", req.complaint_id, req.vote_type,
                            req.user_email, <<>>, 200)]
        /\ last' = Response("vote_complaint", 200, "", NoId, <<>>, Absent,
                IF found THEN complaints_collection[req.complaint_id].votes ELSE 0,
                IF found THEN complaints_collection[req.complaint_id].priority_score
                         ELSE PriorityScale * DefaultSeverity)
        /\ UNCHANGED <<complaints_collection, activity_collection, ml>>

\* ---------------------------------------------------------- /get_complaints
\* category / status of the query string: <<>> stands for a missing or empty
\* parameter, a status is given as its parts between commas
Falsy(param) == param \in {None, ""}

\* the `query` document built from the parameters, as the ids it matches
\* (search and submitted_by are not sent)
Matches(category, status) ==
    { c \in Ids :
        /\ (~Falsy(category) /\ category # "All")
               => complaints_collection[c].category = category
        /\ (status # <<>> /\ status # <<"All">>)
               => IF Len(status) > 1
                  THEN \E i \in DOMAIN status : complaints_collection[c].status = status[i]
                  ELSE complaints_collection[c].status = status[1] }

\* sort_order: (field, direction) pairs
SortOrder(sort_by) ==
    IF sort_by = "newest" THEN << <<"timestamp", -1>> >>
    ELSE IF sort_by = "oldest" THEN << <<"timestamp", 1>> >>
    ELSE IF sort_by = "highest_priority"
    THEN << <<"priority_score", -1>>, <<"votes", -1>>, <<"timestamp", -1>> >>
    ELSE IF sort_by = "most_votes" THEN << <<"votes", -1>>, <<"timestamp", -1>> >>
    ELSE << <<"timestamp", -1>> >>

SortField(doc, field) ==
    IF field = "timestamp" THEN doc.timestamp
    ELSE IF field = "priority_score" THEN doc.priority_score
    ELSE doc.votes

\* the store's comparison of two documents under sort_order: TRUE when a may
\* be returned before b (a sorts before b, or the two tie on every key)
RECURSIVE MayPrecede(_, _, _)
MayPrecede(a, b, sort_order) ==
    IF sort_order = <<>> THEN TRUE
    ELSE LET field == sort_order[1][1]
             direction == sort_order[1][2]
             x == direction * SortField(complaints_collection[a], field)
             y == direction * SortField(complaints_collection[b], field)
         IN  IF x < y THEN TRUE
             ELSE IF x > y THEN FALSE
             ELSE MayPrecede(a, b, Tail(sort_order))

\* the orders in which the store may hand back the documents ids under
\* sort_order: documents that tie on every sort key come in any order, and
\* not necessarily the same one from one query to the next
Orderings(ids, sort_order) ==
    { s \in [1..Cardinality(ids) -> ids] :
        /\ \A i, j \in DOMAIN s : i # j => s[i] # s[j]
        /\ \A i \in 1..(Len(s) - 1) : MayPrecede(s[i], s[i + 1], sort_order) }

\* find(query, sort=sort_order, skip=skip, limit=limit)
find(ids, sort_order, skip, limit) ==
    { SubSeq(s, skip + 1, IF limit = 0 THEN Len(s) ELSE Min2(skip + limit, Len(s))) :
        s \in Orderings(ids, sort_order) }

\* the body of a 200 response
Listing(complaints, total_count, page, per_page) ==
    [ complaints |-> complaints, total |-> total_count, page |-> page,
      per_page |-> per_page,
      total_pages |-> (total_count + per_page - 1) \div per_page ]

\* the bodies /get_complaints may answer with in the present state
GetComplaintsResponses(category, status, sort_by, page, per_page) ==
    LET matching == Matches(category, status)
        skip == (page - 1) * per_page
        total_count == Cardinality(matching)
    IN  { Listing(complaints, total_count, page, per_page) :
            complaints \in find(matching, SortOrder(sort_by), skip, per_page) }

get_complaints(category, status, sort_by, page, per_page) ==
    /\ UNCHANGED <<complaints_collection, activity_collection, ml, votes_in_flight>>
    /\ IF (page - 1) * per_page < 0 \/ per_page = 0
       \* find() refuses a negative skip; per_page = 0 divides by zero in total_pages
       THEN last' = Response("get_complaints", 500, "Internal server error",
                             NoId, <<>>, Absent, 0, 0)
       ELSE \E body \in GetComplaintsResponses(category, status, sort_by, page, per_page) :
               last' = body @@ Response("get_complaints", 200, "", NoId,
                                        <<>>, Absent, 0, 0)

\* ------------------------------------------------------------ specifications
VoteSlots == 1..MaxRequests

\* complaintId values of requests: falsy, the ids issued so far, and an id
\* that no document has
RequestIds == {NoId} \cup Ids \cup {Cardinality(Ids) + 1}

\* what one complaint shows of the requests applied to it
RECURSIVE Traces(_)
Traces(ids) ==
    IF ids = {} THEN 0
    ELSE LET c == CHOOSE x \in ids : TRUE
             doc == complaints_collection[c]
         IN  Len(doc.comments) + Len(doc.admin_notes)
             + (IF doc.assigned_department # None THEN 1 ELSE 0)
             + (IF doc.has_photo THEN 1 ELSE 0)
             + Traces(ids \ {c})

\* requests admitted so far: every created complaint and every applied status
\* update left one activity entry, every admitted vote holds a slot, every
\* comment, note, assignment and photo shows on its complaint
Load ==
    Len(activity_collection)
    + Cardinality({r \in VoteSlots : votes_in_flight[r].pc # "idle"})
    + Traces(Ids)

Departments == {None, "Roads"}

NoteTexts == {None, "inspected"}

CommentTexts == {None, "me too"}

Photos == {None, "", "photo.jpg"}

StatusValues == {None, "new", "in_progress", "resolved", "closed"}

VoteTypes == {"upvote", "downvote"}

Emails == {None, "", "asha@example.org"}

Init ==
    /\ complaints_collection = <<>>
    /\ activity_collection = <<>>
    /\ ml \in LoadOutcomes
    /\ votes_in_flight = [r \in VoteSlots |-> IdleVote]
    /\ last = NoResponse

\* creation-only specification: every request body and severity value
Submit ==
    /\ Cardinality(Ids) < MaxSubmitted
    /\ \E text \in SubmitTexts, severity_raw \in SubmitSeverities, label \in Labels :
           submit_complaint(text, severity_raw, label)

NextSubmit == Submit

SpecSubmit == Init /\ [][NextSubmit]_vars

\* full specification: every handler that writes, vote requests interleaved
\* step by step
SubmitFew ==
    /\ Load < MaxRequests
    /\ \E text \in FewTexts, severity_raw \in FewSeverities, label \in Labels :
           submit_complaint(text, severity_raw, label)

UpdateStatus ==
    /\ Load < MaxRequests
    /\ \E complaint_id \in RequestIds, new_status \in StatusValues :
           update_status(complaint_id, new_status)

VoteFind ==
    /\ Load < MaxRequests
    /\ \E r \in VoteSlots, complaint_id \in RequestIds, vote_type \in VoteTypes,
          user_email \in Emails :
              vote_find(r, complaint_id, vote_type, user_email)

VoteUpdate == \E r \in VoteSlots : vote_update(r)

VoteRespond == \E r \in VoteSlots : vote_respond(r)

AssignDepartment ==
    /\ Load < MaxRequests
    /\ \E complaint_id \in RequestIds, department \in Departments :
           assign_department(complaint_id, department)

SaveAdminNote ==
    /\ Load < MaxRequests
    /\ \E complaint_id \in RequestIds, note_text \in NoteTexts :
           save_admin_note(complaint_id, note_text)

AddComment ==
    /\ Load < MaxRequests
    /\ \E complaint_id \in RequestIds, comment_text \in CommentTexts :
           add_comment(complaint_id, comment_text)

UploadPhoto ==
    /\ Load < MaxRequests
    /\ \E complaint_id \in RequestIds \ {NoId}, photo \in Photos :
           upload_photo(complaint_id, photo)

Next ==
    \/ SubmitFew
    \/ UpdateStatus
    \/ AssignDepartment
    \/ SaveAdminNote
    \/ AddComment
    \/ UploadPhoto
    \/ VoteFind
    \/ VoteUpdate
    \/ VoteRespond

Spec == Init /\ [][Next]_vars

\* voting specification: complaints are created, moved between statuses and
\* voted on; no comment, note, assignment or photo request arrives
NextVote == SubmitFew \/ UpdateStatus \/ VoteFind \/ VoteUpdate \/ VoteRespond

SpecVote == Init /\ [][NextVote]_vars

QueryCategories == {"All", "Road Issues"}

QueryStatuses == {<<>>, <<"new">>, <<"in_progress", "resolved">>}

Sorts == {"newest", "oldest", "highest_priority", "most_votes", "relevance"}

Pages == 0..MaxPage

PageSizes == 0..MaxPerPage

GetComplaints ==
    \E category \in QueryCategories, status \in QueryStatuses, sort_by \in Sorts,
       page \in Pages, per_page \in PageSizes :
           get_complaints(category, status, sort_by, page, per_page)

\* listing specification: complaints are created and the list is read page
\* by page
NextQuery == SubmitFew \/ GetComplaints

SpecQuery == Init /\ [][NextQuery]_vars

\* ------------------------------------------------------------------ claims
\* votes whose update_one ran / that were answered 200
Applied(r) == votes_in_flight[r].pc \in {"respond", "done"}
Succeeded(r) == votes_in_flight[r].pc = "done" /\ votes_in_flight[r].code = 200

AppliedVotes(c, vote_type) ==
    { r \in VoteSlots : /\ Applied(r)
                        /\ votes_in_flight[r].complaint_id = c
                        /\ votes_in_flight[r].vote_type = vote_type }

AppliedBy(c, user_email, vote_type) ==
    { r \in AppliedVotes(c, vote_type) : votes_in_flight[r].user_email = user_email }

NetVotes(c) ==
    Cardinality(AppliedVotes(c, "upvote")) - Cardinality(AppliedVotes(c, "downvote"))

Abs(n) == IF n < 0 THEN 0 - n ELSE n

AlreadyVotedError == "You have already voted on this complaint"

\* C1: of the vote requests that carry the same non-empty voter identity on
\* the same complaint, at most one is applied, in any interleaving, so that
\* identity moves votes by at most 1 and priority_score by at most 0.5.
C1_OneVotePerVoter ==
    \A c \in Ids, user_email \in Emails :
        user_email \notin {None, ""} =>
            /\ Cardinality(AppliedBy(c, user_email, "upvote")
                           \cup AppliedBy(c, user_email, "downvote")) <= 1
            /\ Abs(Cardinality(AppliedBy(c, user_email, "upvote"))
                   - Cardinality(AppliedBy(c, user_email, "downvote"))) <= 1

\* C2: once a vote with a non-empty voter identity on a complaint has been
\* answered 200, a further vote request with that identity on that complaint
\* is answered 400 "already voted" and changes neither the complaint
\* documents (votes, priority_score, voters) nor the admitted requests.
C2_SecondVoteRejected ==
    [][ last'.op = "vote_complaint" =>
          \A r \in VoteSlots :
              (Succeeded(r) /\ votes_in_flight[r].user_email \notin {None, ""}) =>
                  \A r2 \in VoteSlots, vote_type \in VoteTypes :
                      vote_find(r2, votes_in_flight[r].complaint_id, vote_type,
                                votes_in_flight[r].user_email)
                      => /\ last'.code = 400
                         /\ last'.error = AlreadyVotedError
                         /\ complaints_collection' = complaints_collection
                         /\ votes_in_flight' = votes_in_flight ]_vars

\* C2 witness: the step just taken answered "already voted" while a vote by
\* an identified voter had already completed with 200.
C2_Witness ==
    /\ last.op = "vote_complaint"
    /\ last.code = 400
    /\ last.error = AlreadyVotedError
    /\ \E r \in VoteSlots :
           /\ Succeeded(r)
           /\ votes_in_flight[r].user_email \notin {None, ""}
           /\ complaints_collection[votes_in_flight[r].complaint_id].votes = 1

\* C3: a vote request without voter identity on an existing complaint is
\* never answered with an error, and no applied vote is lost: at every moment
\* votes equals upvotes - downvotes applied to the complaint and priority_score
\* equals its initial value + 0.5 * (upvotes - downvotes).
C3_AnonymousVotesCount ==
    /\ [](\A c \in Ids :
            /\ complaints_collection[c].votes = NetVotes(c)
            /\ complaints_collection[c].priority_score =
                   PriorityScale * InitialPriority(complaints_collection[c].complaint,
                                                   complaints_collection[c].severity)
                   + NetVotes(c))
    /\ [](\A r \in VoteSlots : votes_in_flight[r].pc = "done" => votes_in_flight[r].code = 200)
    /\ [][ last'.op = "vote_complaint" =>
              \A r \in VoteSlots, c \in Ids, vote_type \in VoteTypes, user_email \in {None, ""} :
                  vote_find(r, c, vote_type, user_email) => votes_in_flight'[r].pc = "update" ]_vars

\* C3 witness: two anonymous upvotes on one complaint both answered 200, the
\* complaint two votes and one priority point up.
C3_Witness ==
    \E r1, r2 \in VoteSlots :
        /\ r1 # r2
        /\ Succeeded(r1) /\ Succeeded(r2)
        /\ votes_in_flight[r1].user_email = None /\ votes_in_flight[r2].user_email \in {None, ""}
        /\ votes_in_flight[r1].vote_type = "upvote" /\ votes_in_flight[r2].vote_type = "upvote"
        /\ votes_in_flight[r1].complaint_id = votes_in_flight[r2].complaint_id
        /\ LET doc == complaints_collection[votes_in_flight[r1].complaint_id]
           IN  /\ doc.votes = 2
               /\ doc.priority_score =
                      PriorityScale * InitialPriority(doc.complaint, doc.severity) + 2

\* which categories, by position in CATEGORY_KEYWORDS, have a keyword that
\* occurs in the lower-cased text
KeywordCategories ==
    [ complaint_text \in StrippedTexts |->
        { i \in 1..Len(CATEGORY_KEYWORDS) :
            \E k \in 1..Len(CATEGORY_KEYWORDS[i].keywords) :
                Contains(CATEGORY_KEYWORDS[i].keywords[k], Lower(complaint_text)) } ]

\* C4: a complaint whose text contains a keyword of category C and no keyword
\* of a category declared before C is stored with category C and provenance
\* "manual" (rule based), whichever ML artefacts are loaded.
C4_KeywordCategoryWins ==
    \A c \in Ids :
        \A i \in KeywordCategories[complaints_collection[c].complaint] :
            (\A j \in KeywordCategories[complaints_collection[c].complaint] : i <= j) =>
                /\ complaints_collection[c].category = CATEGORY_KEYWORDS[i].category
                /\ complaints_collection[c].prediction_source = "manual"

\* C4 witness: with all ML artefacts loaded, a text with a "Water Issues"
\* keyword (smell) and a "Drainage Issues" keyword (sewer) is stored as
\* "Water Issues", the category declared first.
C4_Witness ==
    /\ ml.model /\ ml.tfidf_vectorizer /\ ml.label_encoder
    /\ \E c \in Ids :
           /\ KeywordCategories[complaints_collection[c].complaint] = {1, 5}
           /\ complaints_collection[c].category = "Water Issues"
           /\ complaints_collection[c].prediction_source = "manual"

\* C5: a complaint without any keyword, created while the statistical
\* classifier is unavailable, is "Other" with provenance "manual"; provenance
\* is "model" only if the classifier was run (no keyword, all artefacts loaded).
C5_DefaultIsRuleBased ==
    \A c \in Ids :
        LET doc == complaints_collection[c]
            model_run == /\ KeywordCategories[doc.complaint] = {}
                         /\ ml.model /\ ml.tfidf_vectorizer /\ ml.label_encoder
        IN  /\ (KeywordCategories[doc.complaint] = {} /\ ~model_run) =>
                   (doc.category = "Other" /\ doc.prediction_source = "manual")
            /\ doc.prediction_source = "model" => model_run

ClaimedCategories ==
    {"Water Issues", "Road Issues", "Garbage Issues", "Electricity", "Drainage Issues", "Other"}

\* C6: every stored complaint's category is one of the six fixed categories,
\* whatever label the classifier returned, and no step changes the category
\* of a stored complaint.
C6_CategoryInFixedSet ==
    /\ [](\A c \in Ids : complaints_collection[c].category \in ClaimedCategories)
    /\ [][ \A c \in Ids :
              /\ c \in DOMAIN complaints_collection'
              /\ complaints_collection'[c].category = complaints_collection[c].category ]_vars

\* C6 witness: a keyword-free complaint classified by the model, whose label
\* was outside the fixed set, is stored as "Other" and has since been
\* resolved and assigned to a department.
C6_Witness ==
    /\ ml.model /\ ml.tfidf_vectorizer /\ ml.label_encoder
    /\ \E c \in Ids :
           /\ KeywordCategories[complaints_collection[c].complaint] = {}
           /\ complaints_collection[c].category = "Other"
           /\ complaints_collection[c].status = "resolved"
           /\ complaints_collection[c].assigned_department = "Roads"

\* C7: a /submit_complaint whose text is shorter than 10 characters is
\* answered 400 and leaves the complaints and activity collections unchanged.
C7_ShortTextRejected ==
    [][ (last'.op = "submit_complaint" /\ Len(last'.complaint) < 10) =>
          \A severity_raw \in SubmitSeverities, label \in Labels :
              submit_complaint(last'.complaint, severity_raw, label) =>
                  /\ last'.code = 400
                  /\ complaints_collection' = complaints_collection
                  /\ activity_collection' = activity_collection ]_vars

\* C7 witness: a nine-character text was just answered 400 and nothing is stored.
C7_Witness ==
    /\ last.op = "submit_complaint"
    /\ last.code = 400
    /\ Len(last.complaint) = 9
    /\ Ids = {}
    /\ activity_collection = <<>>

\* the boost the claim grants a text: 2 for "urgent" / "emergency", else 1 for
\* "soon" / "important", else 0 (case-insensitive)
ClaimedBoost ==
    [ complaint_text \in StrippedTexts |->
        LET t == Lower(complaint_text)
        IN  IF Contains(KwUrgent, t) \/ Contains(KwEmergency, t) THEN 2
            ELSE IF Contains(KwSoon, t) \/ Contains(KwImportant, t) THEN 1
            ELSE 0 ]

\* C8: a created complaint's priority_score is min(10, severity + 2) if its
\* text mentions "urgent" or "emergency", else min(10, severity + 1) if it
\* mentions "soon" or "important", else severity; a text with words of both
\* groups gets the boost of 2 only.
C8_InitialPriority ==
    \A c \in Ids :
        LET doc == complaints_collection[c]
            boost == ClaimedBoost[doc.complaint]
        IN  doc.priority_score =
                PriorityScale * (IF boost = 0 THEN doc.severity
                                 ELSE Min2(10, doc.severity + boost))

\* C8 witness: severity 9 with "URGENT" in the text is stored with priority 10.
C8_Witness ==
    \E c \in Ids :
        LET doc == complaints_collection[c]
        IN  /\ doc.complaint = TxtUrgentPothole
            /\ doc.severity = 9
            /\ doc.priority_score = PriorityScale * 10

\* C9: every stored complaint's severity is an integer in [1,10], and a
\* missing or unparseable submitted severity is stored as 5.
C9_SeverityInRange ==
    /\ \A c \in Ids : complaints_collection[c].severity \in 1..10
    /\ (last.op = "submit_complaint" /\ last.code = 200
          /\ (~last.severity.given \/ ~IsIntLiteral(Strip(last.severity.value))))
        => complaints_collection[last.complaint_id].severity = 5

\* C10: /update_status with a status outside {new, in_progress, resolved} is
\* answered 400 and changes neither a complaint nor the activity log; a
\* complaint is created with status new; every stored status is one of the three.
C10_StatusInSet ==
    /\ [](\A c \in Ids : complaints_collection[c].status \in {"new", "in_progress", "resolved"})
    /\ [][ \A c \in DOMAIN complaints_collection' :
              c \notin Ids => complaints_collection'[c].status = "new" ]_vars
    /\ [][ last'.op = "update_status" =>
              \A complaint_id \in RequestIds,
                 new_status \in StatusValues \ {"new", "in_progress", "resolved"} :
                  update_status(complaint_id, new_status) =>
                      /\ last'.code = 400
                      /\ complaints_collection' = complaints_collection
                      /\ activity_collection' = activity_collection ]_vars

\* C10 witness: "closed" was just refused for want of a valid status while a
\* complaint stands at resolved.
C10_Witness ==
    /\ last.op = "update_status"
    /\ last.code = 400
    /\ last.error = "Invalid status value"
    /\ \E c \in Ids : complaints_collection[c].status = "resolved"

\* the human label the activity message of a status is to carry
ClaimedLabel ==
    [ s \in {"new", "in_progress", "resolved"} |->
        CASE s = "new" -> "New"
          [] s = "in_progress" -> "In Progress"
          [] s = "resolved" -> "Resolved" ]

MessageContains(message, part) == \E i \in DOMAIN message : message[i] = part

\* C11: /update_status with a status of {new, in_progress, resolved} on an
\* existing complaint is answered 200 whatever the status was before (the
\* same one included), sets that complaint's status and nothing else, and
\* appends exactly one activity entry whose message carries the label New /
\* In Progress / Resolved; with an id that no complaint has it is answered
\* 404, changes no complaint and appends no activity entry.
C11_UpdateStatus ==
    [][ last'.op = "update_status" =>
          \A complaint_id \in RequestIds \ {NoId},
             new_status \in {"new", "in_progress", "resolved"} :
              update_status(complaint_id, new_status) =>
                  IF complaint_id \in Ids
                  THEN /\ last'.code = 200
                       /\ complaints_collection' =
                              [complaints_collection EXCEPT
                                  ![complaint_id].status = new_status]
                       /\ Len(activity_collection') = Len(activity_collection) + 1
                       /\ SubSeq(activity_collection', 1, Len(activity_collection))
                              = activity_collection
                       /\ MessageContains(
                              activity_collection'[Len(activity_collection')].message,
                              ClaimedLabel[new_status])
                  ELSE /\ last'.code = 404
                       /\ complaints_collection' = complaints_collection
                       /\ activity_collection' = activity_collection ]_vars

\* C11 witness: a complaint was marked Resolved twice in a row, the second
\* time from resolved itself, and each request left its own activity entry.
C11_Witness ==
    /\ last.op = "update_status"
    /\ last.code = 200
    /\ Len(activity_collection) = 3
    /\ \A i \in {2, 3} :
          /\ activity_collection[i].type = "status_update"
          /\ MessageContains(activity_collection[i].message, "Resolved")
    /\ activity_collection[2].message = activity_collection[3].message
    /\ \E c \in Ids : complaints_collection[c].status = "resolved"

\* what tells a caller one failure from another: every failure body is
\* {"error": <text>}, so the kind of an outcome is its HTTP status code
OutcomeKind(response) == response.code

\* the error texts with which the handlers refuse malformed input (a missing
\* id or field, a bad status, a short text, a missing photo)
ValidationErrors ==
    { "Complaint must be at least 10 characters", "Missing required fields",
      "Invalid status value", "Complaint ID and comment text are required",
      "No photo part in the request", "No photo selected",
      "Complaint ID is required" }

\* the error texts with which the handlers refuse an id that no complaint has
NotFoundErrors ==
    { "Complaint not found", "Complaint not found or vote not recorded",
      "Complaint not found or comment not added" }

\* C12: a vote refused because its identified voter has already voted (the
\* conflict outcome) is never of the same outcome kind as the failure answered
\* just before it for malformed input (validation outcome) or for an unknown
\* id (not-found outcome), whichever operation that failure came from.
C12_ErrorKindsDistinct ==
    [][ (/\ last'.op = "vote_complaint"
         /\ last'.error = AlreadyVotedError
         /\ last.error \in ValidationErrors \cup NotFoundErrors)
        => OutcomeKind(last') # OutcomeKind(last) ]_vars

\* the fields that /assign_department, /save_admin_note and /add_comment are
\* to leave alone on every complaint
FrameFields(doc) ==
    <<doc.status, doc.category, doc.votes, doc.priority_score, doc.voters>>

\* what a step of one of the three handlers, aimed at complaint_id, may do:
\* no complaint appears or disappears, the frame fields of every complaint
\* and every field of every other complaint stay as they were, and an id
\* that no complaint has is answered 404 with nothing written
FramePreserved(complaint_id) ==
    /\ DOMAIN complaints_collection' = Ids
    /\ \A c \in Ids :
          /\ FrameFields(complaints_collection'[c]) = FrameFields(complaints_collection[c])
          /\ c # complaint_id => complaints_collection'[c] = complaints_collection[c]
    /\ IF complaint_id \in Ids
       THEN last'.code = 200
       ELSE last'.code = 404 /\ complaints_collection' = complaints_collection

\* C14: /assign_department, /save_admin_note, /add_comment and
\* /vote_complaint never append an activity entry; a well-formed request to
\* one of the first three leaves status, category, votes, priority_score and
\* voters of every complaint and every field of every complaint other than
\* the targeted one unchanged, and with an id that no complaint has it is
\* answered 404 and changes nothing.
C14_NoActivityAndFrame ==
    /\ [][ last'.op \in { "assign_department", "save_admin_note", "add_comment",
                          "vote_complaint" }
             => activity_collection' = activity_collection ]_vars
    /\ [][ last'.op = "assign_department" =>
             \A complaint_id \in RequestIds \ {NoId}, department \in Departments \ {None} :
                 assign_department(complaint_id, department) => FramePreserved(complaint_id) ]_vars
    /\ [][ last'.op = "save_admin_note" =>
             \A complaint_id \in RequestIds \ {NoId}, note_text \in NoteTexts \ {None} :
                 save_admin_note(complaint_id, note_text) => FramePreserved(complaint_id) ]_vars
    /\ [][ last'.op = "add_comment" =>
             \A complaint_id \in RequestIds \ {NoId}, comment_text \in CommentTexts \ {None} :
                 add_comment(complaint_id, comment_text) => FramePreserved(complaint_id) ]_vars

\* C14 witness: a complaint was assigned to a department and then commented
\* on, and the activity log still holds the creation entry alone.
C14_Witness ==
    /\ last.op = "add_comment"
    /\ last.code = 200
    /\ Len(activity_collection) = 1
    /\ \E c \in Ids :
          /\ complaints_collection[c].assigned_department = "Roads"
          /\ Len(complaints_collection[c].comments) = 1

\* ceil(total / per_page)
CeilDiv(total, per_page) ==
    CHOOSE n \in 0..total : n * per_page >= total /\ (n - 1) * per_page < total

\* min(P, max(0, T - (k - 1) * P))
ClaimedPageSize(total, per_page, k) ==
    LET left == IF total - (k - 1) * per_page > 0 THEN total - (k - 1) * per_page ELSE 0
    IN  IF per_page < left THEN per_page ELSE left

\* pages 1..n laid end to end
RECURSIVE Concat(_, _)
Concat(book, n) ==
    IF n = 0 THEN <<>> ELSE Concat(book, n - 1) \o book[n].complaints

Records(listing) == { listing.complaints[i] : i \in DOMAIN listing.complaints }

\* C13: with the collection left alone, for every query and page size P >= 1
\* every page k >= 1 answers total = T (the number of matching complaints),
\* total_pages = ceil(T / P) and min(P, max(0, T - (k-1)P)) complaints, and
\* whatever pages 1..total_pages the handler answers with, they are pairwise
\* disjoint and, laid end to end, hold every matching complaint once, in the
\* requested sort order.
C13_Pagination ==
    \A category \in QueryCategories, status \in QueryStatuses, sort_by \in Sorts,
       per_page \in 1..MaxPerPage :
        LET matching == Matches(category, status)
            T == Cardinality(matching)
            n == CeilDiv(T, per_page)
            responses(k) == GetComplaintsResponses(category, status, sort_by, k, per_page)
            books == { book \in [1..n -> UNION { responses(k) : k \in 1..n }] :
                         \A k \in 1..n : book[k] \in responses(k) }
        IN  /\ \A k \in 1..MaxPage : \A r \in responses(k) :
                  /\ r.total = T
                  /\ r.total_pages = n
                  /\ Len(r.complaints) = ClaimedPageSize(T, per_page, k)
            /\ \A book \in books :
                  /\ \A j, k \in 1..n : j # k => Records(book[j]) \cap Records(book[k]) = {}
                  /\ UNION { Records(book[k]) : k \in 1..n } = matching
                  /\ Concat(book, n) \in Orderings(matching, SortOrder(sort_by))

=============================================================================
